---- MODULE Spec2Model ----
(***************************************************************************)
(* Model of the scientific calculator of src/mon.py: the session state     *)
(* (display, memory, history), its handlers, and the two static methods of *)
(* ScientificCalculator.  Text is modelled as sequences of one-character   *)
(* strings, so that str.replace, float(), str() and eval() are computed    *)
(* character by character as the interpreter computes them.                *)
(*                                                                         *)
(* Numbers: a Python int is [t |-> "int"]; a Python float is either        *)
(* [t |-> "float"], an exact dyadic rational n/d (every arithmetic step on *)
(* such values is exact in IEEE-754 binary64 within the bounds below), or  *)
(* [t |-> "dec"], a float known by its shortest repr text only.  Whatever  *)
(* lies outside this exactly-modelled fragment evaluates to Unmodelled and *)
(* the handler is not explored on that input.                              *)
(***************************************************************************)
EXTENDS Integers, Sequences, FiniteSets, TLC

VARIABLES display, memory, history, last

vars == <<display, memory, history, last>>

(* ------------------------------ bounds --------------------------------- *)
\* longest display to which button_click still appends a character
MaxLen == 2
\* longest history to which calculate still appends an entry
MaxHist == 2
\* largest magnitude of an int, and of the numerator of an exact float
MaxMant == 9999
\* an exact float has denominator 2^k with k <= MaxDenExp
MaxDenExp == 11
\* longest display on which apply_function is explored
MaxArgLen == 5
\* longest display on which clear_entry and the sign key are explored
MaxEdit == 2
\* largest magnitude the memory register is driven to
MaxMem == 1

(* ------------------------------ characters ----------------------------- *)
DigitSeq == <<"0","1","2","3","4","5","6","7","8","9">>
Digits == {DigitSeq[i] : i \in 1..10}
IsDigit(c) == c \in Digits
DigitVal(c) == CHOOSE i \in 0..9 : DigitSeq[i + 1] = c
DigitChar(n) == DigitSeq[n + 1]
Lower == {"a","b","c","d","e","f","g","h","i","j","k","l","m",
          "n","o","p","q","r","s","t","u","v","w","x","y","z"}
Upper == {"A","B","C","D","E","F","G","H","I","J","K","L","M",
          "N","O","P","Q","R","S","T","U","V","W","X","Y","Z"}
IsIdStart(c) == c \in Lower \cup Upper \cup {"_"}
IsIdChar(c) == IsIdStart(c) \/ IsDigit(c)

Abs(x) == IF x < 0 THEN -x ELSE x
Min(a, b) == IF a < b THEN a ELSE b

RECURSIVE Gcd(_, _)
Gcd(a, b) == IF b = 0 THEN a ELSE Gcd(b, a % b)

RECURSIVE Pow(_, _)
Pow(b, k) == IF k = 0 THEN 1 ELSE b * Pow(b, k - 1)

IsPow2(d) == \E k \in 0..30 : d = Pow(2, k)

\* s without its first n characters / its first n characters
Drop(s, n) == IF n >= Len(s) THEN <<>> ELSE SubSeq(s, n + 1, Len(s))
Take(s, n) == IF n <= 0 THEN <<>> ELSE SubSeq(s, 1, Min(n, Len(s)))

(* ------------------------------ values --------------------------------- *)
\* Every Python object of the model has the same five fields:
\*   t  its type tag          n, d  numerator and denominator (int, float)
\*   z  sign bit of a zero or of a "dec" float     s  text (dec, func, exc)
V(t, n, d, z, s) == [t |-> t, n |-> n, d |-> d, z |-> z, s |-> s]

Unmodelled == V("unmodelled", 0, 1, FALSE, <<>>)
IntV(n) == V("int", n, 1, FALSE, <<>>)
NegZero == V("float", 0, 1, TRUE, <<>>)
DecV(neg, txt) == V("dec", 0, 1, neg, txt)
TupleV == V("tuple", 0, 1, FALSE, <<>>)
EllipsisV == V("ellipsis", 0, 1, FALSE, <<>>)
StrV(s) == V("str", 0, 1, FALSE, s)
FuncV(name) == V("func", 0, 1, FALSE, name)
\* a raised exception carrying str(e)
Exc(msg) == V("exc", 0, 1, FALSE, msg)

IsExc(v) == v.t = "exc"
IsFloat(v) == v.t \in {"float", "dec"}
IsNum(v) == v.t \in {"int", "float", "dec"}
IsZero(v) == v.t \in {"int", "float"} /\ v.n = 0
IsNeg(v) == IF v.t = "dec" THEN v.z ELSE v.n < 0 \/ v.z

MkInt(n) == IF Abs(n) <= MaxMant THEN IntV(n) ELSE Unmodelled

\* the float n/d (d > 0), when it is an exactly modelled dyadic rational
MkFloat(n, d) ==
    LET g == Gcd(Abs(n), d)
        nn == n \div g
        dd == d \div g
    IN  IF IsPow2(dd) /\ dd <= Pow(2, MaxDenExp) /\ Abs(nn) <= MaxMant
        THEN V("float", nn, dd, FALSE, <<>>)
        ELSE Unmodelled

\* float(x) of an int x
ToFloat(v) == IF v.t = "int" THEN V("float", v.n, 1, FALSE, <<>>) ELSE v

(* ------------------------------ str() ---------------------------------- *)
PiText == <<"3",".","1","4","1","5","9","2","6","5","3","5","8","9","7","9","3">>
EText == <<"2",".","7","1","8","2","8","1","8","2","8","4","5","9","0","4","5">>

RECURSIVE StrNat(_)
StrNat(n) == IF n < 10 THEN <<DigitChar(n)>>
             ELSE StrNat(n \div 10) \o <<DigitChar(n % 10)>>

StrInt(n) == IF n < 0 THEN <<"-">> \o StrNat(-n) ELSE StrNat(n)

\* decimal digits of r/d for 0 <= r < d, d with no prime factor but 2 and 5
\* (long division)
RECURSIVE FracDigits(_, _)
FracDigits(r, d) == IF r = 0 THEN <<>>
                    ELSE <<DigitChar((r * 10) \div d)>> \o FracDigits((r * 10) % d, d)

\* repr of the magnitude of an exact float: every digit of n/d is significant
\* and there are at most 15 of them, so the shortest repr is the expansion
AbsText(v) ==
    LET a == Abs(v.n)
        fr == FracDigits(a % v.d, v.d)
    IN  StrNat(a \div v.d) \o <<".">> \o (IF fr = <<>> THEN <<"0">> ELSE fr)

BuiltinPrefix == <<"<","b","u","i","l","t","-","i","n"," ","f","u","n","c","t","i","o","n"," ">>

\* str(v) for the objects evaluate and scientific_function can produce
PyStr(v) ==
    CASE v.t = "int" -> StrInt(v.n)
      [] v.t = "float" -> (IF IsNeg(v) THEN <<"-">> ELSE <<>>) \o AbsText(v)
      [] v.t = "dec" -> (IF v.z THEN <<"-">> ELSE <<>>) \o v.s
      [] v.t = "tuple" -> <<"(", ")">>
      [] v.t = "func" -> BuiltinPrefix \o v.s \o <<">">>
      [] v.t = "ellipsis" -> <<"E","l","l","i","p","s","i","s">>
      [] OTHER -> v.s

\* type(v).__name__ as it appears in TypeError messages
TypeName(v) ==
    CASE v.t = "int" -> <<"i","n","t">>
      [] v.t \in {"float", "dec"} -> <<"f","l","o","a","t">>
      [] v.t = "tuple" -> <<"t","u","p","l","e">>
      [] v.t = "ellipsis" -> <<"e","l","l","i","p","s","i","s">>
      [] OTHER -> <<"b","u","i","l","t","i","n","_","f","u","n","c","t","i","o","n","_","o","r","_","m","e","t","h","o","d">>

(* ------------------------------ numerals ------------------------------- *)
\* how many characters of s[lo..hi], from lo on, belong to cs
RECURSIVE Span(_, _, _, _)
Span(s, cs, lo, hi) ==
    IF lo > hi THEN 0
    ELSE IF lo = hi THEN (IF s[lo] \in cs THEN 1 ELSE 0)
    ELSE LET mid == (lo + hi) \div 2
             left == Span(s, cs, lo, mid)
         IN  IF left < mid - lo + 1 THEN left ELSE left + Span(s, cs, mid + 1, hi)

SpanDigits(s) == Span(s, Digits, 1, Len(s))

RECURSIVE StripZerosL(_)
StripZerosL(s) == IF s # <<>> /\ Head(s) = "0" THEN StripZerosL(Tail(s)) ELSE s

RECURSIVE StripZerosR(_)
StripZerosR(s) == IF s # <<>> /\ s[Len(s)] = "0" THEN StripZerosR(Take(s, Len(s) - 1)) ELSE s

RECURSIVE NatOf(_)
NatOf(s) == IF s = <<>> THEN 0 ELSE NatOf(Take(s, Len(s) - 1)) * 10 + DigitVal(s[Len(s)])

\* The float denoted by integer digits ip and fraction digits fp (correctly
\* rounded, as float() and the compiler do): an exact float when the decimal
\* is a dyadic rational within the bounds, otherwise a "dec" float whose repr
\* is the normalised decimal itself (true for at most 15 significant digits,
\* and for the 16-digit texts of math.pi and math.e).
DecimalValue(ip, fp, neg) ==
    LET i == StripZerosL(ip)
        f == StripZerosR(fp)
        sig == StripZerosL(i \o f)
        txt == (IF i = <<>> THEN <<"0">> ELSE i) \o <<".">> \o f
        lead == Len(f) - Len(StripZerosL(f))
    IN  IF f = <<>>
        THEN IF Len(i) > 4 THEN Unmodelled
             ELSE IF NatOf(i) = 0 THEN (IF neg THEN NegZero ELSE MkFloat(0, 1))
             ELSE MkFloat(IF neg THEN -NatOf(i) ELSE NatOf(i), 1)
        ELSE IF Len(i) <= 4 /\ Len(f) <= 12 /\ Len(StripZerosL(f)) <= 9
                /\ NatOf(StripZerosL(f)) % Pow(5, Len(f)) = 0
        THEN LET num == NatOf(i) * Pow(2, Len(f)) + NatOf(StripZerosL(f)) \div Pow(5, Len(f))
             IN  MkFloat(IF neg THEN -num ELSE num, Pow(2, Len(f)))
        ELSE IF (Len(sig) <= 15 \/ txt \in {PiText, EText}) /\ (i # <<>> \/ lead <= 3)
        THEN DecV(neg, txt)
        ELSE Unmodelled

(* ------------------------------ float(str) ----------------------------- *)
\* the printable characters of the model's texts (ASCII but the backquote, and π)
Punctuation == {" ", "!", "\"", "#", "$", "%", "&", "'", "(", ")", "*", "+", ",", "-", ".", "/",
                ":", ";", "<", "=", ">", "?", "@", "[", "\\", "]", "^", "_", "{", "|", "}", "~"}
Printable == Lower \cup Upper \cup Digits \cup Punctuation \cup {"π"}
\* the whitespace float() strips, among the characters of the model's texts
Whitespace == {" ", "\t", "\n", "\r", "\f"}

RECURSIVE StripL(_)
StripL(s) == IF s # <<>> /\ Head(s) \in Whitespace THEN StripL(Tail(s)) ELSE s

RECURSIVE StripR(_)
StripR(s) == IF s # <<>> /\ s[Len(s)] \in Whitespace THEN StripR(Take(s, Len(s) - 1)) ELSE s

\* [eE][+-]?digits+ and nothing after it
IsExponent(s) ==
    /\ Len(s) >= 2
    /\ s[1] \in {"e", "E"}
    /\ LET r == IF s[2] \in {"+", "-"} THEN Drop(s, 2) ELSE Drop(s, 1)
       IN  r # <<>> /\ SpanDigits(r) = Len(r)

MatchCI(s, pat) == Len(s) = Len(pat) /\ \A k \in 1..Len(s) : s[k] \in pat[k]

IsInfNan(s) ==
    \/ MatchCI(s, <<{"i","I"}, {"n","N"}, {"f","F"}>>)
    \/ MatchCI(s, <<{"n","N"}, {"a","A"}, {"n","N"}>>)
    \/ MatchCI(s, <<{"i","I"}, {"n","N"}, {"f","F"}, {"i","I"}, {"n","N"}, {"i","I"}, {"t","T"}, {"y","Y"}>>)

\* repr of the character c inside quotes q
ReprChar(c, q) ==
    CASE c = "\\" -> <<"\\", "\\">>
      [] c = "\t" -> <<"\\", "t">>
      [] c = "\n" -> <<"\\", "n">>
      [] c = "\r" -> <<"\\", "r">>
      [] c = "\f" -> <<"\\", "x", "0", "c">>
      [] c = q -> <<"\\", q>>
      [] OTHER -> <<c>>

RECURSIVE ReprBody(_, _)
ReprBody(s, q) == IF s = <<>> THEN <<>> ELSE ReprChar(Head(s), q) \o ReprBody(Tail(s), q)

\* repr(s) of a str, as ValueError embeds it: in double quotes when s holds a
\* single quote and no double quote, otherwise in single quotes
PyRepr(s) ==
    LET q == IF (\E k \in 1..Len(s) : s[k] = "'") /\ ~(\E k \in 1..Len(s) : s[k] = "\"")
             THEN "\"" ELSE "'"
    IN  <<q>> \o ReprBody(s, q) \o <<q>>


\* float(s): a float, the ValueError it raises, or Unmodelled
PyFloat(s) ==
    LET t == StripR(StripL(s))
        neg == t # <<>> /\ Head(t) = "-"
        b == IF t # <<>> /\ Head(t) \in {"+", "-"} THEN Tail(t) ELSE t
        i == SpanDigits(b)
        r == Drop(b, i)
        j == IF r # <<>> /\ Head(r) = "." THEN SpanDigits(Tail(r)) ELSE 0
        r2 == IF r # <<>> /\ Head(r) = "." THEN Drop(r, j + 1) ELSE r
        bad == Exc(<<"c","o","u","l","d"," ","n","o","t"," ","c","o","n","v","e","r","t"," ","s","t","r","i","n","g"," ","t","o"," ","f","l","o","a","t",":"," ">> \o PyRepr(s))
    IN  IF (\E k \in 1..Len(s) : s[k] = "_" \/ s[k] \notin Printable \cup Whitespace)
           \/ IsInfNan(b)
        THEN Unmodelled
        ELSE IF i + j = 0 THEN bad
        ELSE IF r2 = <<>> THEN DecimalValue(Take(b, i), Take(Drop(b, i + 1), j), neg)
        ELSE IF IsExponent(r2) THEN Unmodelled
        ELSE bad


(* ------------------------------ float arithmetic ----------------------- *)
RECURSIVE StripFactor(_, _)
StripFactor(n, p) == IF n % p = 0 THEN StripFactor(n \div p, p) ELSE n

\* The correctly rounded float of p/q (q # 0, p # 0): exact when dyadic, a
\* "dec" float when p/q is a short finite decimal, otherwise not modelled.
Quot(p, q) ==
    LET neg == (p < 0) # (q < 0)
        g == Gcd(Abs(p), Abs(q))
        a == Abs(p) \div g
        b == Abs(q) \div g
    IN  IF IsPow2(b) THEN MkFloat(IF neg THEN -a ELSE a, b)
        ELSE IF StripFactor(StripFactor(b, 2), 5) = 1 /\ b <= 100000
        THEN DecimalValue(StrNat(a \div b), FracDigits(a % b, b), neg)
        ELSE Unmodelled

IsSquare(n) == \E r \in 0..100 : r * r = n
Sqrt(n) == CHOOSE r \in 0..100 : r * r = n

\* magnitude of a "dec" float exceeds 1 (it is never an integer)
DecAbove1(v) == Head(v.s) # "0"
\* integer part of the magnitude of a "dec" float
DecTrunc(v) == NatOf(Take(v.s, SpanDigits(v.s)))

FloatOne == V("float", 1, 1, FALSE, <<>>)
FloatZero == V("float", 0, 1, FALSE, <<>>)

MsgDomain == <<"m","a","t","h"," ","d","o","m","a","i","n"," ","e","r","r","o","r">>
MsgFloatDiv == <<"f","l","o","a","t"," ","d","i","v","i","s","i","o","n"," ","b","y"," ","z","e","r","o">>

\* the functions of the math module on a float x, at the arguments where the
\* C library result is exact; math domain errors as the module raises them
MathFn(name, x) ==
    CASE name \in {"sin", "tan", "atan", "sinh", "tanh", "degrees", "radians"} ->
            IF IsZero(x) THEN x ELSE Unmodelled
      [] name = "asin" ->
            IF IsZero(x) THEN x
            ELSE IF (x.t = "float" /\ Abs(x.n) > x.d) \/ (x.t = "dec" /\ DecAbove1(x))
            THEN Exc(MsgDomain) ELSE Unmodelled
      [] name = "acos" ->
            IF (x.t = "float" /\ Abs(x.n) > x.d) \/ (x.t = "dec" /\ DecAbove1(x))
            THEN Exc(MsgDomain)
            ELSE IF x = FloatOne THEN FloatZero ELSE Unmodelled
      [] name \in {"cos", "cosh", "exp"} ->
            IF IsZero(x) THEN FloatOne ELSE Unmodelled
      [] name = "log10" ->
            IF IsZero(x) \/ IsNeg(x) THEN Exc(MsgDomain)
            ELSE IF x.t = "float" /\ x.d = 1 /\ x.n \in {1, 10, 100, 1000}
            THEN MkFloat(CHOOSE k \in 0..3 : Pow(10, k) = x.n, 1)
            ELSE Unmodelled
      [] name = "log" ->
            IF IsZero(x) \/ IsNeg(x) THEN Exc(MsgDomain)
            ELSE IF x = FloatOne THEN FloatZero ELSE Unmodelled
      [] name = "sqrt" ->
            IF IsZero(x) THEN x
            ELSE IF IsNeg(x) THEN Exc(MsgDomain)
            ELSE IF x.t = "float" /\ IsSquare(x.n) /\ IsSquare(x.d)
            THEN MkFloat(Sqrt(x.n), Sqrt(x.d))
            ELSE Unmodelled
      [] OTHER -> Unmodelled

\* x ** k for a float x and an integer k >= 0, by exact multiplication
RECURSIVE FloatPowNat(_, _)
FloatPowNat(x, k) ==
    IF k = 0 THEN FloatOne
    ELSE LET y == FloatPowNat(x, k - 1)
         IN  IF y = Unmodelled \/ x.t # "float" THEN Unmodelled
             ELSE IF IsZero(x) THEN (IF x.z /\ k % 2 = 1 THEN NegZero ELSE FloatZero)
             ELSE MkFloat(y.n * x.n, y.d * x.d)

\* math.floor and math.ceil of a float: an int
FloorOf(x) == IF x.t = "dec" THEN MkInt(IF x.z THEN -(DecTrunc(x) + 1) ELSE DecTrunc(x))
              ELSE MkInt(x.n \div x.d)
CeilOf(x) == IF x.t = "dec" THEN MkInt(IF x.z THEN -DecTrunc(x) ELSE DecTrunc(x) + 1)
             ELSE MkInt(-((-x.n) \div x.d))

AbsOf(x) == IF x.t = "dec" THEN DecV(FALSE, x.s) ELSE V(x.t, Abs(x.n), x.d, FALSE, <<>>)

(* ------------------------------ scientific_function -------------------- *)
ErrorPrefix == <<"E","r","r","o","r",":"," ">>
ErrorBare == <<"E","r","r","o","r">>
\* stands for a str this model does not compute
UNMODELLED == <<"<unmodelled>">>

\* src/mon.py:102-125, the keys of the table `functions`
functions == {"sin", "cos", "tan", "asin", "acos", "atan", "sinh", "cosh", "tanh",
              "log", "ln", "sqrt", "square", "cube", "reciprocal", "factorial",
              "abs", "exp", "deg", "rad", "ceil", "floor"}

\* a reciprocal following IEEE-754 division, under which 1/0.0 is an infinity
\* instead of a ZeroDivisionError
ReciprocalInf(x) ==
    IF IsZero(x) THEN DecV(x.z, <<"i","n","f">>)
    ELSE IF x.t = "dec" THEN Unmodelled
    ELSE Quot(x.d, x.n)

\* src/mon.py:117, lambda x: 1/x
Reciprocal(x) ==
    IF IsZero(x) THEN Exc(MsgFloatDiv)
    ELSE IF x.t = "dec" THEN Unmodelled
    ELSE Quot(x.d, x.n)

\* functions[func_name](value) for a float value
ApplyTable(func_name, x) ==
    CASE func_name \in {"sin", "cos", "tan", "asin", "acos", "atan",
                        "sinh", "cosh", "tanh", "sqrt", "exp"} -> MathFn(func_name, x)
      [] func_name = "log" -> MathFn("log10", x)
      [] func_name = "ln" -> MathFn("log", x)
      [] func_name = "deg" -> MathFn("degrees", x)
      [] func_name = "rad" -> MathFn("radians", x)
      [] func_name = "square" -> FloatPowNat(x, 2)
      [] func_name = "cube" -> FloatPowNat(x, 3)
      [] func_name = "reciprocal" -> Reciprocal(x)
      [] func_name = "factorial" -> Exc(<<"'","f","l","o","a","t","'"," ","o","b","j","e","c","t"," ","c","a","n","n","o","t"," ","b","e"," ","i","n","t","e","r","p","r","e","t","e","d"," ","a","s"," ","a","n"," ","i","n","t","e","g","e","r">>)
      [] func_name = "abs" -> AbsOf(x)
      [] func_name = "ceil" -> CeilOf(x)
      [] func_name = "floor" -> FloorOf(x)

scientific_function(func_name, value) ==
    LET x == PyFloat(value)
        result == ApplyTable(func_name, x)
    IN  IF x = Unmodelled THEN UNMODELLED
        ELSE IF IsExc(x) THEN ErrorPrefix \o x.s
        ELSE IF func_name \in functions
        THEN IF result = Unmodelled THEN UNMODELLED
             ELSE IF IsExc(result) THEN ErrorPrefix \o result.s
             ELSE PyStr(result)
        ELSE ErrorBare


(* ------------------------------ str.replace ---------------------------- *)
\* s.replace(c, r) for a one-character c
RECURSIVE Join(_, _, _)
\* the concatenation of parts[lo], ..., parts[hi]
Join(parts, lo, hi) ==
    IF lo > hi THEN <<>>
    ELSE IF lo = hi THEN parts[lo]
    ELSE LET mid == (lo + hi) \div 2
         IN  Join(parts, lo, mid) \o Join(parts, mid + 1, hi)

Replace(s, c, r) ==
    IF s = <<>> THEN <<>>
    ELSE Join([i \in 1..Len(s) |-> IF s[i] = c THEN r ELSE <<s[i]>>], 1, Len(s))

\* src/mon.py:73-75
Preprocess(expression) ==
    Replace(Replace(Replace(expression, "^", <<"*", "*">>), "π", PiText), "e", EText)

(* ------------------------------ tokenizer ------------------------------ *)
\* A token: k its kind ("num", "name", "str", "op", "end", "err", "eoferr",
\* "unmodelled"), s its text (the message, for an error), lvl the number of
\* brackets open after it.
Tok(k, s, lvl) == [k |-> k, s |-> s, lvl |-> lvl]

MsgSyntax == <<"i","n","v","a","l","i","d"," ","s","y","n","t","a","x">>
MsgComma == <<"i","n","v","a","l","i","d"," ","s","y","n","t","a","x","."," ","P","e","r","h","a","p","s"," ","y","o","u"," ","f","o","r","g","o","t"," ","a"," ","c","o","m","m","a","?">>
MsgNeverClosed == <<"'","(","'"," ","w","a","s"," ","n","e","v","e","r"," ","c","l","o","s","e","d">>
\* the location that str(SyntaxError) appends
MsgWhere == <<" ","(","<","s","t","r","i","n","g",">",","," ","l","i","n","e"," ","1",")">>

SpanId(s) == Span(s, Lower \cup Upper \cup Digits \cup {"_"}, 1, Len(s))

StartsWith(s, pre) == Len(s) >= Len(pre) /\ Take(s, Len(pre)) = pre

\* lookahead() of the tokenizer: the keyword tail kw follows, and no
\* identifier character follows it
KwAhead(s, kw) ==
    StartsWith(s, kw) /\ (Len(s) = Len(kw) \/ ~IsIdChar(s[Len(kw) + 1]))

\* verify_end_of_number(): rest is the text right after a number; for "if",
\* "in" and "is" the tokenizer looks at the two letters only
EndOfNumberOk(rest) ==
    \/ rest = <<>>
    \/ ~IsIdStart(Head(rest))
    \/ KwAhead(rest, <<"a","n","d">>) \/ KwAhead(rest, <<"e","l","s","e">>)
    \/ KwAhead(rest, <<"f","o","r">>) \/ KwAhead(rest, <<"o","r">>)
    \/ KwAhead(rest, <<"n","o","t">>)
    \/ (Head(rest) = "i" /\ Len(rest) >= 2 /\ rest[2] \in {"f", "n", "s"})

\* The number at the head of s (s starts with a digit, or with "." and a
\* digit): [k, s, n] with n the number of characters consumed.
ScanNumber(s) ==
    LET i == SpanDigits(s)
        dot == i < Len(s) /\ s[i + 1] = "."
        j == IF dot THEN SpanDigits(Drop(s, i + 1)) ELSE 0
        n == IF dot THEN i + 1 + j ELSE i
        rest == Drop(s, n)
        next == IF rest = <<>> THEN " " ELSE Head(rest)
        oldOctal == ~dot /\ Head(s) = "0" /\ StripZerosL(Take(s, i)) # <<>>
    IN  IF next \in {"_", "j", "J", "e", "E"}
           \/ (i = 1 /\ Head(s) = "0" /\ next \in {"x", "X", "o", "O", "b", "B"})
        THEN [k |-> "unmodelled", s |-> <<>>, n |-> n]
        ELSE IF oldOctal THEN [k |-> "err", s |-> <<"l","e","a","d","i","n","g"," ","z","e","r","o","s"," ","i","n"," ","d","e","c","i","m","a","l"," ","i","n","t","e","g","e","r"," ","l","i","t","e","r","a","l","s"," ","a","r","e"," ","n","o","t"," ","p","e","r","m","i","t","t","e","d",";"," ","u","s","e"," ","a","n"," ","0","o"," ","p","r","e","f","i","x"," ","f","o","r"," ","o","c","t","a","l"," ","i","n","t","e","g","e","r","s">>, n |-> n]
        ELSE IF ~EndOfNumberOk(rest) THEN [k |-> "err", s |-> <<"i","n","v","a","l","i","d"," ","d","e","c","i","m","a","l"," ","l","i","t","e","r","a","l">>, n |-> n]
        ELSE [k |-> "num", s |-> Take(s, n), n |-> n]

\* index of the quote closing a string opened with q, 0 when there is none
RECURSIVE CloseQuote(_, _, _)
CloseQuote(s, q, at) ==
    IF at > Len(s) THEN 0
    ELSE IF s[at] = "\\" THEN CloseQuote(s, q, at + 2)
    ELSE IF s[at] = q THEN at
    ELSE CloseQuote(s, q, at + 1)

Quotes == {"'", "\""}
SimpleOps == {"+", "-", "%", ",", ":", ";", "."}


\* The token at the head of s (s # <<>> and Head(s) # " "): tok the token,
\* n the characters it takes, more whether the tokenizer goes on after it.
NextToken(s, lvl) ==
    LET c == Head(s)
        One(k, txt, l, n, more) == [tok |-> Tok(k, txt, l), n |-> n, more |-> more]
        Unm == One("unmodelled", <<>>, lvl, 0, FALSE)
    IN
    IF IsIdStart(c) THEN
        LET n == SpanId(s) IN
        IF n < Len(s) /\ s[n + 1] \in Quotes THEN Unm
        ELSE One("name", Take(s, n), lvl, n, TRUE)
    ELSE IF IsDigit(c) \/ (c = "." /\ Len(s) >= 2 /\ IsDigit(s[2])) THEN
        LET t == ScanNumber(s) IN
        One(t.k, t.s, lvl, t.n, t.k = "num")
    ELSE IF c \in Quotes THEN
        LET q == CloseQuote(s, c, 2) IN
        IF Len(s) >= 3 /\ s[2] = c /\ s[3] = c THEN Unm
        ELSE IF q = 0 THEN One("err", <<"u","n","t","e","r","m","i","n","a","t","e","d"," ","s","t","r","i","n","g"," ","l","i","t","e","r","a","l"," ","(","d","e","t","e","c","t","e","d"," ","a","t"," ","l","i","n","e"," ","1",")">>, lvl, 0, FALSE)
        ELSE One("str", Take(s, q), lvl, q, TRUE)
    ELSE IF c = "(" THEN One("op", <<"(">>, lvl + 1, 1, TRUE)
    ELSE IF c = ")" THEN
        IF lvl = 0 THEN One("err", <<"u","n","m","a","t","c","h","e","d"," ","'",")","'">>, lvl, 0, FALSE)
        ELSE One("op", <<")">>, lvl - 1, 1, TRUE)
    ELSE IF StartsWith(s, <<".", ".", ".">>) THEN One("op", <<".", ".", ".">>, lvl, 3, TRUE)
    ELSE IF c \in {"*", "/"} THEN
        IF Len(s) >= 2 /\ s[2] = "=" THEN Unm
        ELSE IF Len(s) >= 2 /\ s[2] = c THEN
            IF Len(s) >= 3 /\ s[3] = "=" THEN Unm
            ELSE One("op", <<c, c>>, lvl, 2, TRUE)
        ELSE One("op", <<c>>, lvl, 1, TRUE)
    ELSE IF c \in SimpleOps THEN
        IF Len(s) >= 2 /\ s[2] \in {"=", ">"} THEN Unm
        ELSE One("op", <<c>>, lvl, 1, TRUE)
    ELSE Unm

\* The tokens of s from character at on, with lvl brackets open: the list
\* ends with the first "err" or "unmodelled" token, or with "end"/"eoferr".
RECURSIVE TokenizeFrom(_, _, _)
TokenizeFrom(s, at, lvl) ==
    LET from == at + Span(s, {" "}, at, Len(s))
        t == NextToken(Drop(s, from - 1), lvl)
    IN  IF from > Len(s)
        THEN <<Tok(IF lvl > 0 THEN "eoferr" ELSE "end", MsgNeverClosed, lvl)>>
        ELSE IF t.more THEN <<t.tok>> \o TokenizeFrom(s, from + t.n, t.tok.lvl)
        ELSE <<t.tok>>

Tokenize(s, lvl) ==
    IF s = <<>> THEN <<Tok("end", MsgNeverClosed, lvl)>> ELSE TokenizeFrom(s, 1, lvl)


(* ------------------------------ parser --------------------------------- *)
\* Names the expression grammar treats specially; an expression that uses
\* one where the parser would consult it is outside the model.
Keywords == {
    <<"a","n","d">>,
    <<"o","r">>,
    <<"n","o","t">>,
    <<"i","f">>,
    <<"e","l","s","e">>,
    <<"i","n">>,
    <<"i","s">>,
    <<"f","o","r">>,
    <<"l","a","m","b","d","a">>,
    <<"N","o","n","e">>,
    <<"T","r","u","e">>,
    <<"F","a","l","s","e">>,
    <<"a","w","a","i","t">>,
    <<"y","i","e","l","d">>,
    <<"a","s","y","n","c">>,
    <<"f","r","o","m">>,
    <<"w","h","i","l","e">>,
    <<"w","i","t","h">>,
    <<"a","s">>,
    <<"a","s","s","e","r","t">>,
    <<"b","r","e","a","k">>,
    <<"c","l","a","s","s">>,
    <<"c","o","n","t","i","n","u","e">>,
    <<"d","e","f">>,
    <<"d","e","l">>,
    <<"e","l","i","f">>,
    <<"e","x","c","e","p","t">>,
    <<"f","i","n","a","l","l","y">>,
    <<"g","l","o","b","a","l">>,
    <<"i","m","p","o","r","t">>,
    <<"n","o","n","l","o","c","a","l">>,
    <<"p","a","s","s">>,
    <<"r","a","i","s","e">>,
    <<"r","e","t","u","r","n">>,
    <<"t","r","y">>,
    <<"m","a","t","c","h">>,
    <<"c","a","s","e">>,
    <<"_">>,
    <<"p","r","i","n","t">>,
    <<"e","x","e","c">>,
    <<"_","_","b","u","i","l","t","i","n","s","_","_">>}

\* Result of a parsing function: ok with the tree ast and the next index p,
\* or a failure at token p ("after": a complete expression ends right before
\* p), or um when the text leaves the modelled grammar.
Ok(ast, p) == [ok |-> TRUE, um |-> FALSE, ast |-> ast, p |-> p, after |-> FALSE]
Fail(p, after) == [ok |-> FALSE, um |-> FALSE, ast |-> <<>>, p |-> p, after |-> after]
UnmP == [ok |-> FALSE, um |-> TRUE, ast |-> <<>>, p |-> 1, after |-> FALSE]

IsOp(t, o) == t.k = "op" /\ t.s = o
IsKeyword(t) == t.k = "name" /\ t.s \in Keywords
FailAfter(T, p) == IF IsKeyword(T[p]) \/ T[p].k = "unmodelled" THEN UnmP ELSE Fail(p, TRUE)

\* the parse r, continued by K when it succeeded
Then(r, K(_)) == IF ~r.ok THEN r ELSE K(r)
\* K of the value v
With(v, K(_)) == K(v)

RECURSIVE PExpr(_, _), PExprRest(_, _, _), PTerm(_, _), PTermRest(_, _, _)
RECURSIVE PFactor(_, _), PPower(_, _), PTrailers(_, _, _), PArgs(_, _, _), PAtom(_, _)

\* atom: NUMBER | NAME | '...' | '(' ')' | '(' expression ')'
PAtom(T, i) ==
    LET t == T[i] IN
    IF t.k = "num" THEN Ok(<<"num", t.s>>, i + 1)
    ELSE IF t.k = "name" THEN (IF IsKeyword(t) THEN UnmP ELSE Ok(<<"name", t.s>>, i + 1))
    ELSE IF t.k \in {"str", "unmodelled"} THEN UnmP
    ELSE IF IsOp(t, <<".", ".", ".">>) THEN Ok(<<"ellipsis">>, i + 1)
    ELSE IF IsOp(t, <<"(">>) THEN
        IF IsOp(T[i + 1], <<")">>) THEN Ok(<<"tuple">>, i + 2)
        ELSE IF IsOp(T[i + 1], <<"*">>) \/ IsOp(T[i + 1], <<"*", "*">>) THEN UnmP
        ELSE Then(PExpr(T, i + 1), LAMBDA e :
                 IF IsOp(T[e.p], <<")">>) THEN Ok(e.ast, e.p + 1)
                 ELSE IF IsOp(T[e.p], <<",">>) THEN UnmP
                 ELSE FailAfter(T, e.p))
    ELSE Fail(i, FALSE)

\* arguments of a call, after its '('
PArgs(T, i, acc) ==
    Then(PExpr(T, i), LAMBDA e :
        IF IsOp(T[e.p], <<")">>) THEN Ok(Append(acc, e.ast), e.p + 1)
        ELSE IF IsOp(T[e.p], <<",">>) THEN
            IF IsOp(T[e.p + 1], <<")">>) THEN Ok(Append(acc, e.ast), e.p + 2)
            ELSE IF IsOp(T[e.p + 1], <<"*">>) \/ IsOp(T[e.p + 1], <<"*", "*">>) THEN UnmP
            ELSE PArgs(T, e.p + 1, Append(acc, e.ast))
        ELSE FailAfter(T, e.p))

\* primary: atom ('(' [arguments] ')' | '.' NAME)*
PTrailers(T, a, p) ==
    IF IsOp(T[p], <<"(">>) THEN
        IF IsOp(T[p + 1], <<")">>) THEN PTrailers(T, <<"call", a, <<>>>>, p + 2)
        ELSE IF IsOp(T[p + 1], <<"*">>) \/ IsOp(T[p + 1], <<"*", "*">>) THEN UnmP
        ELSE Then(PArgs(T, p + 1, <<>>), LAMBDA r : PTrailers(T, <<"call", a, r.ast>>, r.p))
    ELSE IF IsOp(T[p], <<".">>) THEN
        IF T[p + 1].k \in {"name", "unmodelled"} THEN UnmP ELSE Fail(p + 1, FALSE)
    ELSE Ok(a, p)

\* power: primary ['**' factor]
PPower(T, i) ==
    Then(PAtom(T, i), LAMBDA a :
        Then(PTrailers(T, a.ast, a.p), LAMBDA t :
            IF IsOp(T[t.p], <<"*", "*">>)
            THEN Then(PFactor(T, t.p + 1), LAMBDA f :
                     Ok(<<"bin", <<"*", "*">>, t.ast, f.ast>>, f.p))
            ELSE t))

\* factor: ('+' | '-') factor | power
PFactor(T, i) ==
    IF IsOp(T[i], <<"-">>) \/ IsOp(T[i], <<"+">>)
    THEN Then(PFactor(T, i + 1), LAMBDA f : Ok(<<"un", T[i].s, f.ast>>, f.p))
    ELSE PPower(T, i)

\* term: factor (('*' | '/' | '//' | '%') factor)*
PTermRest(T, a, p) ==
    IF T[p].k = "op" /\ T[p].s \in {<<"*">>, <<"/">>, <<"/", "/">>, <<"%">>}
    THEN Then(PFactor(T, p + 1), LAMBDA f : PTermRest(T, <<"bin", T[p].s, a, f.ast>>, f.p))
    ELSE Ok(a, p)

PTerm(T, i) == Then(PFactor(T, i), LAMBDA f : PTermRest(T, f.ast, f.p))

\* expression (sum): term (('+' | '-') term)*
PExprRest(T, a, p) ==
    IF IsOp(T[p], <<"+">>) \/ IsOp(T[p], <<"-">>)
    THEN Then(PTerm(T, p + 1), LAMBDA f : PExprRest(T, <<"bin", T[p].s, a, f.ast>>, f.p))
    ELSE Ok(a, p)

PExpr(T, i) == Then(PTerm(T, i), LAMBDA f : PExprRest(T, f.ast, f.p))

\* eval: expression ENDMARKER
Parse(T) ==
    Then(PExpr(T, 1), LAMBDA r :
        IF T[r.p].k = "end" THEN r
        ELSE IF IsOp(T[r.p], <<",">>) THEN UnmP
        ELSE FailAfter(T, r.p))

\* The parser's second pass tries, at a NAME followed by a token that can
\* start an expression, the rule for a Python 2 print statement and may so
\* read on to the end of a text that leaves a bracket open: how far it reads
\* is outside the model.
LegacyReach(T) ==
    /\ T[Len(T)].k = "eoferr"
    /\ \E i \in 1..(Len(T) - 1) :
          /\ T[i].k = "name"
          /\ \/ T[i + 1].k \in {"name", "num", "str"}
             \/ T[i + 1].k = "op" /\ T[i + 1].s \in {<<"+">>, <<"-">>, <<"*">>, <<".", ".", ".">>}

\* The message of the SyntaxError compile() raises for a failed parse f of
\* the tokens T: a tokenizer error wherever it is in the text; the unclosed
\* bracket when a parsing pass reads up to the end of the text; the missing
\* comma hint; or the generic message.  <<>> when outside the model.
SyntaxMessage(T, f) ==
    LET lastTok == T[Len(T)] IN
    IF lastTok.k = "err" THEN lastTok.s
    ELSE IF lastTok.k = "eoferr" /\ f.p = Len(T) THEN MsgNeverClosed
    ELSE IF f.after /\ T[f.p].k = "str" THEN <<>>
    ELSE IF f.after /\ (T[f.p].k \in {"num", "name"} \/ IsOp(T[f.p], <<".", ".", ".">>))
    THEN With(PExpr(T, f.p), LAMBDA b :
             IF b.um THEN <<>>
             ELSE IF lastTok.k = "eoferr" /\ b.p = Len(T) THEN MsgNeverClosed
             ELSE IF ~b.ok \/ LegacyReach(T) THEN <<>>
             ELSE IF T[b.p - 1].lvl # 0 THEN MsgComma
             ELSE MsgSyntax)
    ELSE IF LegacyReach(T) THEN <<>>
    ELSE MsgSyntax


(* ------------------------------ evaluation ----------------------------- *)
\* src/mon.py:78-90, the functions of safe_dict: <<key, name of the callable>>
safe_dict == <<
    <<<<"s","i","n">>, <<"s","i","n">>>>,
    <<<<"c","o","s">>, <<"c","o","s">>>>,
    <<<<"t","a","n">>, <<"t","a","n">>>>,
    <<<<"a","s","i","n">>, <<"a","s","i","n">>>>,
    <<<<"a","c","o","s">>, <<"a","c","o","s">>>>,
    <<<<"a","t","a","n">>, <<"a","t","a","n">>>>,
    <<<<"s","i","n","h">>, <<"s","i","n","h">>>>,
    <<<<"c","o","s","h">>, <<"c","o","s","h">>>>,
    <<<<"t","a","n","h">>, <<"t","a","n","h">>>>,
    <<<<"l","o","g">>, <<"l","o","g","1","0">>>>,
    <<<<"l","n">>, <<"l","o","g">>>>,
    <<<<"l","o","g","1","0">>, <<"l","o","g","1","0">>>>,
    <<<<"s","q","r","t">>, <<"s","q","r","t">>>>,
    <<<<"p","o","w">>, <<"p","o","w">>>>,
    <<<<"e","x","p">>, <<"e","x","p">>>>,
    <<<<"f","a","c","t","o","r","i","a","l">>, <<"f","a","c","t","o","r","i","a","l">>>>,
    <<<<"a","b","s">>, <<"a","b","s">>>>,
    <<<<"r","o","u","n","d">>, <<"r","o","u","n","d">>>>,
    <<<<"c","e","i","l">>, <<"c","e","i","l">>>>,
    <<<<"f","l","o","o","r">>, <<"f","l","o","o","r">>>>,
    <<<<"d","e","g","r","e","e","s">>, <<"d","e","g","r","e","e","s">>>>,
    <<<<"r","a","d","i","a","n","s">>, <<"r","a","d","i","a","n","s">>>>
>>
\* src/mon.py:85, the constants of safe_dict
safe_consts == <<
    <<<<"p","i">>, PiText>>,
    <<<<"e">>, EText>>
>>

\* the callable named by the text s, as a string
FnName(s) ==
    CASE s = <<"a","b","s">> -> "abs"
      [] s = <<"a","c","o","s">> -> "acos"
      [] s = <<"a","s","i","n">> -> "asin"
      [] s = <<"a","t","a","n">> -> "atan"
      [] s = <<"c","e","i","l">> -> "ceil"
      [] s = <<"c","o","s">> -> "cos"
      [] s = <<"c","o","s","h">> -> "cosh"
      [] s = <<"d","e","g","r","e","e","s">> -> "degrees"
      [] s = <<"e","x","p">> -> "exp"
      [] s = <<"f","a","c","t","o","r","i","a","l">> -> "factorial"
      [] s = <<"f","l","o","o","r">> -> "floor"
      [] s = <<"l","o","g">> -> "log"
      [] s = <<"l","o","g","1","0">> -> "log10"
      [] s = <<"p","o","w">> -> "pow"
      [] s = <<"r","a","d","i","a","n","s">> -> "radians"
      [] s = <<"r","o","u","n","d">> -> "round"
      [] s = <<"s","i","n">> -> "sin"
      [] s = <<"s","i","n","h">> -> "sinh"
      [] s = <<"s","q","r","t">> -> "sqrt"
      [] s = <<"t","a","n">> -> "tan"
      [] s = <<"t","a","n","h">> -> "tanh"
      [] OTHER -> "?"

MsgRealNumber == <<"m","u","s","t"," ","b","e"," ","r","e","a","l"," ","n","u","m","b","e","r",","," ","n","o","t"," ">>

Quoted(s) == <<"'">> \o s \o <<"'">>

\* the value of a NUMBER token
NumberValue(s) ==
    LET i == SpanDigits(s) IN
    IF i = Len(s)
    THEN (IF Len(StripZerosL(s)) <= 4 THEN MkInt(NatOf(StripZerosL(s))) ELSE Unmodelled)
    ELSE DecimalValue(Take(s, i), Drop(s, i + 1), FALSE)

\* a name looked up in the namespace given to eval: safe_dict, builtins empty
Lookup(name) ==
    IF \E k \in 1..Len(safe_consts) : safe_consts[k][1] = name
    THEN DecV(FALSE, safe_consts[CHOOSE k \in 1..Len(safe_consts) : safe_consts[k][1] = name][2])
    ELSE IF \E k \in 1..Len(safe_dict) : safe_dict[k][1] = name
    THEN FuncV(safe_dict[CHOOSE k \in 1..Len(safe_dict) : safe_dict[k][1] = name][2])
    ELSE Exc(<<"n","a","m","e"," ","'">> \o name \o <<"'"," ","i","s"," ","n","o","t"," ","d","e","f","i","n","e","d">>)

Bad(v) == IsExc(v) \/ v = Unmodelled

NegOf(x) ==
    IF x.t = "int" THEN IntV(-x.n)
    ELSE IF x.t = "dec" THEN DecV(~x.z, x.s)
    ELSE IF x.n = 0 THEN V("float", 0, 1, ~x.z, <<>>)
    ELSE V("float", -x.n, x.d, FALSE, <<>>)

Unary(op, x) ==
    IF ~IsNum(x) THEN Exc(<<"b","a","d"," ","o","p","e","r","a","n","d"," ","t","y","p","e"," ","f","o","r"," ","u","n","a","r","y"," ">> \o op \o <<":", " ">> \o Quoted(TypeName(x)))
    ELSE IF op = <<"-">> THEN NegOf(x) ELSE x

SignedZero(neg) == IF neg THEN NegZero ELSE FloatZero

AddF(x, y) ==
    IF x.t = "dec" \/ y.t = "dec" THEN Unmodelled
    ELSE IF x.n * y.d + y.n * x.d = 0
    THEN SignedZero(IsZero(x) /\ IsZero(y) /\ x.z /\ y.z)
    ELSE MkFloat(x.n * y.d + y.n * x.d, x.d * y.d)

MulF(x, y) ==
    IF x.t = "dec" \/ y.t = "dec" THEN Unmodelled
    ELSE IF x.n * y.n = 0 THEN SignedZero(IsNeg(x) # IsNeg(y))
    ELSE MkFloat(x.n * y.n, x.d * y.d)

\* x / y for floats, y # 0
DivF(x, y) ==
    IF x.t = "dec" \/ y.t = "dec" THEN Unmodelled
    ELSE IF x.n = 0 THEN SignedZero(IsNeg(x) # IsNeg(y))
    ELSE Quot(x.n * y.d, x.d * y.n)

\* floor(a / b) and a - b * floor(a / b) for ints, b # 0
FloorDiv(a, b) == IF b > 0 THEN a \div b ELSE (-a) \div (-b)
PyMod(a, b) == a - b * FloorDiv(a, b)

\* a ** k for ints, k >= 0; beyond MaxMant the result only says so
RECURSIVE IntPow(_, _)
IntPow(a, k) ==
    IF k = 0 THEN 1
    ELSE LET q == IntPow(a, k - 1) IN IF Abs(q) > MaxMant THEN q ELSE q * a

\* x ** y for floats x, y; zeroMsg is what a zero base with a negative
\* exponent raises (ZeroDivisionError for **, ValueError for math.pow)
PowF(x, y, zeroMsg) ==
    IF IsZero(y) THEN FloatOne
    ELSE IF x.t = "dec" \/ y.t = "dec" \/ y.d # 1 \/ Abs(y.n) > 31 THEN Unmodelled
    ELSE IF y.n > 0 THEN FloatPowNat(x, y.n)
    ELSE IF IsZero(x) THEN Exc(zeroMsg)
    ELSE LET w == FloatPowNat(x, -y.n) IN
         IF w = Unmodelled \/ ~IsPow2(Abs(w.n)) THEN Unmodelled
         ELSE MkFloat(IF w.n < 0 THEN -w.d ELSE w.d, Abs(w.n))

OpText(op) == IF op = <<"*", "*">> THEN <<"*","*"," ","o","r"," ","p","o","w","(",")">> ELSE op

Binary(op, x, y) ==
    IF ~IsNum(x) \/ ~IsNum(y) THEN
        IF op = <<"+">> /\ x.t = "tuple"
        THEN IF y.t = "tuple" THEN TupleV
             ELSE Exc(<<"c","a","n"," ","o","n","l","y"," ","c","o","n","c","a","t","e","n","a","t","e"," ","t","u","p","l","e"," ","(","n","o","t"," ","\"">> \o TypeName(y) \o <<"\"",")"," ","t","o"," ","t","u","p","l","e">>)
        ELSE IF op = <<"*">> /\ "tuple" \in {x.t, y.t}
        THEN IF "int" \in {x.t, y.t} THEN TupleV
             ELSE Exc(<<"c","a","n","'","t"," ","m","u","l","t","i","p","l","y"," ","s","e","q","u","e","n","c","e"," ","b","y"," ","n","o","n","-","i","n","t"," ","o","f"," ","t","y","p","e"," ">> \o Quoted(TypeName(IF x.t = "tuple" THEN y ELSE x)))
        ELSE Exc(<<"u","n","s","u","p","p","o","r","t","e","d"," ","o","p","e","r","a","n","d"," ","t","y","p","e","(","s",")"," ","f","o","r"," ">> \o OpText(op) \o <<":", " ">> \o Quoted(TypeName(x))
                 \o <<" ","a","n","d"," ">> \o Quoted(TypeName(y)))
    ELSE LET ints == x.t = "int" /\ y.t = "int"
             fx == ToFloat(x)
             fy == ToFloat(y)
         IN
         CASE op = <<"+">> -> IF ints THEN MkInt(x.n + y.n) ELSE AddF(fx, fy)
           [] op = <<"-">> -> IF ints THEN MkInt(x.n - y.n) ELSE AddF(fx, NegOf(fy))
           [] op = <<"*">> -> IF ints THEN MkInt(x.n * y.n) ELSE MulF(fx, fy)
           [] op = <<"/">> ->
                IF IsZero(y) THEN Exc(IF ints THEN <<"d","i","v","i","s","i","o","n"," ","b","y"," ","z","e","r","o">> ELSE MsgFloatDiv)
                ELSE DivF(fx, fy)
           [] op = <<"/", "/">> ->
                IF IsZero(y) THEN Exc(IF ints THEN <<"i","n","t","e","g","e","r"," ","d","i","v","i","s","i","o","n"," ","o","r"," ","m","o","d","u","l","o"," ","b","y"," ","z","e","r","o">> ELSE <<"f","l","o","a","t"," ","f","l","o","o","r"," ","d","i","v","i","s","i","o","n"," ","b","y"," ","z","e","r","o">>)
                ELSE IF ints THEN MkInt(FloorDiv(x.n, y.n)) ELSE Unmodelled
           [] op = <<"%">> ->
                IF IsZero(y) THEN Exc(IF ints THEN <<"i","n","t","e","g","e","r"," ","m","o","d","u","l","o"," ","b","y"," ","z","e","r","o">> ELSE <<"f","l","o","a","t"," ","m","o","d","u","l","o">>)
                ELSE IF ints THEN MkInt(PyMod(x.n, y.n)) ELSE Unmodelled
           [] op = <<"*", "*">> ->
                IF ints /\ y.n >= 0
                THEN (IF y.n > 31 THEN Unmodelled ELSE MkInt(IntPow(x.n, y.n)))
                ELSE PowF(fx, fy, <<"0",".","0"," ","c","a","n","n","o","t"," ","b","e"," ","r","a","i","s","e","d"," ","t","o"," ","a"," ","n","e","g","a","t","i","v","e"," ","p","o","w","e","r">>)

RECURSIVE Factorial(_)
Factorial(n) == IF n = 0 THEN 1 ELSE n * Factorial(n - 1)

\* round(x) for a float: the nearest int, ties to even
RoundOf(x) ==
    IF x.t = "dec"
    THEN LET up == DigitVal(x.s[SpanDigits(x.s) + 2]) >= 5
             m == DecTrunc(x) + (IF up THEN 1 ELSE 0)
         IN  MkInt(IF x.z THEN -m ELSE m)
    ELSE LET fl == x.n \div x.d
             r2 == 2 * (x.n - fl * x.d)
         IN  MkInt(IF r2 < x.d THEN fl
                   ELSE IF r2 > x.d THEN fl + 1
                   ELSE IF fl % 2 = 0 THEN fl ELSE fl + 1)

\* a call of the callable named fn with the argument values args
Call(fn, args) ==
    LET x == args[1] IN
    IF fn = "pow" THEN
        IF Len(args) # 2 THEN Unmodelled
        ELSE IF ~IsNum(x) THEN Exc(MsgRealNumber \o TypeName(x))
        ELSE IF ~IsNum(args[2]) THEN Exc(MsgRealNumber \o TypeName(args[2]))
        ELSE PowF(ToFloat(x), ToFloat(args[2]), MsgDomain)
    ELSE IF Len(args) # 1 THEN Unmodelled
    ELSE IF fn = "factorial" THEN
        IF x.t = "int"
        THEN (IF x.n < 0 THEN Exc(<<"f","a","c","t","o","r","i","a","l","(",")"," ","n","o","t"," ","d","e","f","i","n","e","d"," ","f","o","r"," ","n","e","g","a","t","i","v","e"," ","v","a","l","u","e","s">>)
              ELSE IF x.n > 12 THEN Unmodelled ELSE MkInt(Factorial(x.n)))
        ELSE Exc(Quoted(TypeName(x)) \o <<" ","o","b","j","e","c","t"," ","c","a","n","n","o","t"," ","b","e"," ","i","n","t","e","r","p","r","e","t","e","d"," ","a","s"," ","a","n"," ","i","n","t","e","g","e","r">>)
    ELSE IF fn = "abs" THEN
        IF ~IsNum(x) THEN Exc(<<"b","a","d"," ","o","p","e","r","a","n","d"," ","t","y","p","e"," ","f","o","r"," ","a","b","s","(",")",":"," ">> \o Quoted(TypeName(x)))
        ELSE IF x.t = "int" THEN IntV(Abs(x.n)) ELSE AbsOf(x)
    ELSE IF fn = "round" THEN
        IF ~IsNum(x) THEN Exc(<<"t","y","p","e"," ">> \o TypeName(x) \o <<" ","d","o","e","s","n","'","t"," ","d","e","f","i","n","e"," ","_","_","r","o","u","n","d","_","_"," ","m","e","t","h","o","d">>)
        ELSE IF x.t = "int" THEN x ELSE RoundOf(x)
    ELSE IF ~IsNum(x) THEN Exc(MsgRealNumber \o TypeName(x))
    ELSE IF fn = "ceil" THEN (IF x.t = "int" THEN x ELSE CeilOf(x))
    ELSE IF fn = "floor" THEN (IF x.t = "int" THEN x ELSE FloorOf(x))
    ELSE MathFn(fn, ToFloat(x))

RECURSIVE Eval(_), EvalArgs(_)

\* the argument values, or <<v>> tagged bad at the first that raises
EvalArgs(as) ==
    IF as = <<>> THEN [bad |-> FALSE, v |-> Unmodelled, vals |-> <<>>]
    ELSE LET x == Eval(Head(as)) IN
         IF Bad(x) THEN [bad |-> TRUE, v |-> x, vals |-> <<>>]
         ELSE LET r == EvalArgs(Tail(as)) IN
              IF r.bad THEN r ELSE [bad |-> FALSE, v |-> Unmodelled, vals |-> <<x>> \o r.vals]

\* the value of a syntax tree, operands left to right; Exc when it raises
Eval(a) ==
    CASE a[1] = "num" -> NumberValue(a[2])
      [] a[1] = "name" -> Lookup(a[2])
      [] a[1] = "tuple" -> TupleV
      [] a[1] = "ellipsis" -> EllipsisV
      [] a[1] = "un" -> LET x == Eval(a[3]) IN IF Bad(x) THEN x ELSE Unary(a[2], x)
      [] a[1] = "bin" ->
            LET x == Eval(a[3]) IN
            IF Bad(x) THEN x
            ELSE LET y == Eval(a[4]) IN IF Bad(y) THEN y ELSE Binary(a[2], x, y)
      [] a[1] = "call" ->
            LET f == Eval(a[2]) IN
            IF Bad(f) THEN f
            ELSE LET r == EvalArgs(a[3]) IN
                 IF r.bad THEN r.v
                 ELSE IF f.t # "func" THEN Exc(Quoted(TypeName(f)) \o <<" ","o","b","j","e","c","t"," ","i","s"," ","n","o","t"," ","c","a","l","l","a","b","l","e">>)
                 ELSE IF r.vals = <<>> THEN Unmodelled
                 ELSE Call(FnName(f.s), r.vals)

(* ------------------------------ evaluate ------------------------------- *)
\* evaluate without its try/except: what compile() or eval() raises reaches
\* the caller as the exception itself
evaluate_uncaught(expression) ==
    With(Tokenize(Preprocess(expression), 0), LAMBDA T :
        With(Parse(T), LAMBDA f :
            IF T[Len(T)].k = "unmodelled" \/ T[1].k = "end" \/ f.um THEN Unmodelled
            ELSE IF ~f.ok
            THEN With(SyntaxMessage(T, f), LAMBDA msg :
                     IF msg = <<>> THEN Unmodelled ELSE Exc(msg \o MsgWhere))
            ELSE Eval(f.ast)))

\* src/mon.py:69-95.  The result is the object eval returns, or the str
\* f"Error: {str(e)}" as StrV, or Unmodelled.
evaluate(expression) ==
    With(Tokenize(Preprocess(expression), 0), LAMBDA T :
        With(Parse(T), LAMBDA f :
            IF T[Len(T)].k = "unmodelled" \/ T[1].k = "end" \/ f.um THEN Unmodelled
            ELSE IF ~f.ok
            THEN With(SyntaxMessage(T, f), LAMBDA msg :
                     IF msg = <<>> THEN Unmodelled
                     ELSE StrV(ErrorPrefix \o msg \o MsgWhere))
            ELSE With(Eval(f.ast), LAMBDA result :
                     IF IsExc(result) THEN StrV(ErrorPrefix \o result.s) ELSE result)))


(* ------------------------------ calculate's formatting ----------------- *)
\* digits + 1, as a decimal numeral of the same length; <<>> on overflow
RECURSIVE IncDigits(_)
IncDigits(s) ==
    IF s = <<>> THEN <<>>
    ELSE IF s[Len(s)] # "9" THEN Take(s, Len(s) - 1) \o <<DigitChar(DigitVal(s[Len(s)]) + 1)>>
    ELSE LET r == IncDigits(Take(s, Len(s) - 1)) IN
         IF r = <<>> THEN <<>> ELSE r \o <<"0">>

\* round(x, 10) of a float given by the decimal ip.fp: correct rounding of
\* the decimal, ties to even.  exact tells whether ip.fp is the float's exact
\* value (a tie of a repr text cannot be decided from the text).
RoundDecimal(ip, fp, neg, exact) ==
    LET keep == Take(fp, 10)
        rest == Drop(fp, 10)
        tie == Head(rest) = "5" /\ StripZerosR(Tail(rest)) = <<>>
        up == IF tie THEN DigitVal(keep[10]) % 2 = 1 ELSE DigitVal(Head(rest)) >= 5
        inc == IncDigits(keep)
    IN  IF tie /\ ~exact THEN Unmodelled
        ELSE IF ~up THEN DecimalValue(ip, keep, neg)
        ELSE IF inc # <<>> THEN DecimalValue(ip, inc, neg)
        ELSE DecimalValue(StrNat(NatOf(ip) + 1), <<>>, neg)

Round10(x) ==
    IF x.t = "float"
    THEN IF x.d <= 1024 THEN x
         ELSE RoundDecimal(StrNat(Abs(x.n) \div x.d), FracDigits(Abs(x.n) % x.d, x.d),
                           IsNeg(x), TRUE)
    ELSE LET i == SpanDigits(x.s) IN
         IF Len(x.s) - i - 1 <= 10 THEN x
         ELSE IF i > 4 THEN Unmodelled
         ELSE RoundDecimal(Take(x.s, i), Drop(x.s, i + 1), x.z, FALSE)

\* a calculate that skips the formatting of lines 180-184
FormatNothing(result) == result

\* src/mon.py:180-184
FormatResult(result) ==
    IF IsFloat(result)
    THEN IF result.t = "float" /\ result.d = 1 THEN IntV(result.n) ELSE Round10(result)
    ELSE result

(* ------------------------------ session state -------------------------- *)
\* what the last call was, for stating properties of single calls: op its
\* name, fn the function or key it was given, tag the branch it took, out the
\* value returned (of the two static methods; NoValue for a handler)
Last(op, fn, tag, out) == [op |-> op, fn |-> fn, tag |-> tag, out |-> out]
NoValue == V("none", 0, 1, FALSE, <<>>)

\* src/mon.py:57-63
Init ==
    /\ display = <<"0">>
    /\ memory = IntV(0)
    /\ history = <<>>
    /\ last = Last("init", "", "", NoValue)

Operators == {"+", "-", "*", "/", "^"}

\* src/mon.py:159-163
button_click(value) ==
    /\ Len(display) < MaxLen \/ (display = <<"0">> /\ value \notin Operators)
    /\ display' = IF display = <<"0">> /\ value \notin Operators
                  THEN <<value>>
                  ELSE display \o <<value>>
    /\ last' = Last("button_click", value, "", NoValue)
    /\ UNCHANGED <<memory, history>>

\* a clear that also forgets the history
clear_everything ==
    /\ display' = <<"0">>
    /\ history' = <<>>
    /\ last' = Last("clear", "", "", NoValue)
    /\ UNCHANGED memory

\* src/mon.py:165-166
clear ==
    /\ display' = <<"0">>
    /\ last' = Last("clear", "", "", NoValue)
    /\ UNCHANGED <<memory, history>>

\* a clear_entry without the fallback of lines 170-171
clear_entry_no_fallback ==
    /\ Len(display) <= MaxEdit
    /\ display' = Take(display, Len(display) - 1)
    /\ last' = Last("clear_entry", "", "", NoValue)
    /\ UNCHANGED <<memory, history>>

\* src/mon.py:168-171
clear_entry ==
    /\ Len(display) <= MaxEdit
    /\ display' = IF Take(display, Len(display) - 1) = <<>>
                  THEN <<"0">>
                  ELSE Take(display, Len(display) - 1)
    /\ last' = Last("clear_entry", "",
                    IF Take(display, Len(display) - 1) = <<>> THEN "reset" ELSE "", NoValue)
    /\ UNCHANGED <<memory, history>>

\* a test that never recognises an error string
IsErrorNever(s) == FALSE

\* src/mon.py:178, result.startswith("Error")
IsError(s) == StartsWith(s, ErrorBare)
\* src/mon.py:187, f"{expression} = {result}"
Entry(expression, result) == expression \o <<" ", "=", " ">> \o PyStr(result)

\* src/mon.py:177-190: what calculate does once evaluate has returned result
Calculated(expression, result) ==
    /\ result # Unmodelled
    /\ IF result.t # "str" \/ ~IsError(result.s)
       THEN LET shown == FormatResult(result) IN
            /\ shown # Unmodelled
            /\ Len(history) < MaxHist
            /\ history' = Append(history, Entry(expression, shown))
            /\ display' = PyStr(shown)
            /\ last' = Last("calculate", "", "ok", NoValue)
       ELSE /\ display' = result.s
            /\ history' = history
            /\ last' = Last("calculate", "", "error", NoValue)
    /\ UNCHANGED memory

\* src/mon.py:173-192
calculate == Calculated(display, evaluate(display))

\* src/mon.py:194-200
apply_function(func) ==
    LET current_value == display
        result == scientific_function(func, current_value)
    IN  /\ Len(display) <= MaxArgLen
        /\ result # UNMODELLED
        /\ display' = result
        /\ last' = Last("apply_function", func, IF IsError(result) THEN "error" ELSE "ok", NoValue)
        /\ UNCHANGED <<memory, history>>

InMemRange(v) == v.t \in {"int", "float"} /\ Abs(v.n) <= MaxMem * v.d

\* a memory update that resets the register when float() raises
MemoryUpdateOrReset(op, name) ==
    LET x == PyFloat(display)
        m == Binary(op, memory, x)
    IN  /\ x # Unmodelled
        /\ IF IsExc(x)
           THEN /\ memory' = IntV(0)
                /\ last' = Last(name, "", "error", NoValue)
           ELSE /\ InMemRange(m)
                /\ memory' = m
                /\ last' = Last(name, "", "ok", NoValue)
        /\ UNCHANGED <<display, history>>

\* memory := memory op float(display), or no change when float() raises
MemoryUpdate(op, name) ==
    LET x == PyFloat(display)
        m == Binary(op, memory, x)
    IN  /\ x # Unmodelled
        /\ IF IsExc(x)
           THEN /\ memory' = memory
                /\ last' = Last(name, "", "error", NoValue)
           ELSE /\ InMemRange(m)
                /\ memory' = m
                /\ last' = Last(name, "", "ok", NoValue)
        /\ UNCHANGED <<display, history>>

\* src/mon.py:202-206
memory_add == MemoryUpdate(<<"+">>, "memory_add")

\* src/mon.py:208-212
memory_subtract == MemoryUpdate(<<"-">>, "memory_subtract")

\* src/mon.py:214-215
memory_recall ==
    /\ display' = PyStr(memory)
    /\ last' = Last("memory_recall", "", "", NoValue)
    /\ UNCHANGED <<memory, history>>

\* src/mon.py:217-218
memory_clear ==
    /\ memory' = IntV(0)
    /\ last' = Last("memory_clear", "", "", NoValue)
    /\ UNCHANGED <<display, history>>

\* src/mon.py:411-416, the sign key
sign ==
    LET val == PyFloat(display) IN
    /\ Len(display) <= MaxEdit
    /\ val # Unmodelled
    /\ display' = IF IsExc(val) THEN display ELSE PyStr(NegOf(val))
    /\ last' = Last("sign", "", IF IsExc(val) THEN "error" ELSE "ok", NoValue)
    /\ UNCHANGED <<memory, history>>

\* src/mon.py:150-156, the Clear History button, shown while history is not empty
clear_history ==
    /\ history # <<>>
    /\ history' = <<>>
    /\ last' = Last("clear_history", "", "", NoValue)
    /\ UNCHANGED <<display, memory>>

(* ------------------------------ Programmer mode ------------------------ *)
\* Python's a & b, a | b, a ^ b and ~a on ints (two's complement, unbounded)
RECURSIVE BitAnd(_, _)
BitAnd(a, b) ==
    IF a = 0 \/ b = 0 THEN 0
    ELSE IF a = -1 THEN b
    ELSE IF b = -1 THEN a
    ELSE 2 * BitAnd(a \div 2, b \div 2) + (a % 2) * (b % 2)

RECURSIVE BitOr(_, _)
BitOr(a, b) ==
    IF a = 0 THEN b
    ELSE IF b = 0 THEN a
    ELSE IF a = -1 \/ b = -1 THEN -1
    ELSE 2 * BitOr(a \div 2, b \div 2) + (IF a % 2 = 1 \/ b % 2 = 1 THEN 1 ELSE 0)

BitNot(a) == -a - 1

RECURSIVE BitXor(_, _)
BitXor(a, b) ==
    IF a = 0 THEN b
    ELSE IF b = 0 THEN a
    ELSE IF a = -1 THEN BitNot(b)
    ELSE IF b = -1 THEN BitNot(a)
    ELSE 2 * BitXor(a \div 2, b \div 2) + (IF a % 2 # b % 2 THEN 1 ELSE 0)

\* src/mon.py:470-481: a bitwise button puts str() of its result on the display
Bitwise(button, result) ==
    /\ display' = StrInt(result)
    /\ last' = Last(button, "", "", NoValue)
    /\ UNCHANGED <<memory, history>>

\* src/mon.py:471-472
bitwise_and(num1, num2) == Bitwise("AND", BitAnd(num1, num2))
\* src/mon.py:474-475
bitwise_or(num1, num2) == Bitwise("OR", BitOr(num1, num2))
\* src/mon.py:477-478
bitwise_xor(num1, num2) == Bitwise("XOR", BitXor(num1, num2))
\* src/mon.py:480-481
bitwise_not(num1) == Bitwise("NOT", BitNot(num1))

(* ------------------------------ specifications ------------------------- *)
\* keys pressed in the explored sessions (src/mon.py:226-270, 351-421)
Keys == {"1", "/"}
\* function buttons pressed in the explored sessions (src/mon.py:268-364)
FunctionKeys == {"sqrt"}
\* values of the two number inputs of Programmer mode (src/mon.py:463-466)
Numbers == {0, 1}

Next ==
    \/ \E value \in Keys : button_click(value)
    \/ clear
    \/ clear_entry
    \/ calculate
    \/ \E func \in FunctionKeys : apply_function(func)
    \/ memory_add
    \/ memory_subtract
    \/ memory_recall
    \/ memory_clear
    \/ sign
    \/ clear_history
    \/ \E num1, num2 \in Numbers : bitwise_and(num1, num2)
    \/ \E num1, num2 \in Numbers : bitwise_or(num1, num2)
    \/ \E num1, num2 \in Numbers : bitwise_xor(num1, num2)
    \/ \E num1 \in Numbers : bitwise_not(num1)

Spec == Init /\ [][Next]_vars

(* ---------------- the static methods on given input texts --------------- *)
\* display texts that are numerals
NumberTexts == {
    <<"0">>,  \* 0
    <<"0",".","0">>,  \* 0.0
    <<"-","0">>,  \* -0
    <<"4">>,  \* 4
    <<"5">>,  \* 5
    <<"-","1">>,  \* -1
    <<"2",".","5">>  \* 2.5
    }

\* display texts that are expressions
ExpressionTexts == {
    <<"7">>,  \* 7
    <<"4","/","2">>,  \* 4/2
    <<"1","/","2">>,  \* 1/2
    <<"1","/","2","0","4","8">>,  \* 1/2048
    <<"7","/","2","0","4","8">>,  \* 7/2048
    <<"1","/","0">>,  \* 1/0
    <<"1","/">>,  \* 1/
    <<"(",")">>,  \* ()
    <<"s","i","n">>,  \* sin
    <<"f","o","o","(","1",")">>,  \* foo(1)
    <<"s","q","r","t","(","-","1",")">>  \* sqrt(-1)
    }

\* for each function name of safe_dict, an expression applying it to an
\* argument of its domain
NameUses == <<
    <<"sin", <<"s","i","n","(","0",")">>>>,
    <<"cos", <<"c","o","s","(","0",")">>>>,
    <<"tan", <<"t","a","n","(","0",")">>>>,
    <<"asin", <<"a","s","i","n","(","0",")">>>>,
    <<"acos", <<"a","c","o","s","(","1",")">>>>,
    <<"atan", <<"a","t","a","n","(","0",")">>>>,
    <<"sinh", <<"s","i","n","h","(","0",")">>>>,
    <<"cosh", <<"c","o","s","h","(","0",")">>>>,
    <<"tanh", <<"t","a","n","h","(","0",")">>>>,
    <<"log", <<"l","o","g","(","1",")">>>>,
    <<"ln", <<"l","n","(","1",")">>>>,
    <<"log10", <<"l","o","g","1","0","(","1",")">>>>,
    <<"sqrt", <<"s","q","r","t","(","4",")">>>>,
    <<"pow", <<"p","o","w","(","2",",","3",")">>>>,
    <<"exp", <<"e","x","p","(","0",")">>>>,
    <<"factorial", <<"f","a","c","t","o","r","i","a","l","(","3",")">>>>,
    <<"abs", <<"a","b","s","(","-","1",")">>>>,
    <<"round", <<"r","o","u","n","d","(","2",".","5",")">>>>,
    <<"ceil", <<"c","e","i","l","(","1",".","5",")">>>>,
    <<"floor", <<"f","l","o","o","r","(","1",".","5",")">>>>,
    <<"degrees", <<"d","e","g","r","e","e","s","(","0",")">>>>,
    <<"radians", <<"r","a","d","i","a","n","s","(","0",")">>>>
    >>

\* the two constant names of safe_dict
ConstantUses == <<<<"pi", <<"p","i">>>>, <<"e", <<"e">>>>>>

Inputs ==
    NumberTexts \cup ExpressionTexts
        \cup {NameUses[i][2] : i \in 1..Len(NameUses)}
        \cup {ConstantUses[i][2] : i \in 1..Len(ConstantUses)}

\* a session that has calculated '1' and added it to the memory (calculate
\* and memory_add on display '1'), and whose display holds an input text
InitFn ==
    /\ display \in Inputs
    /\ memory = FloatOne
    /\ history = <<Entry(<<"1">>, IntV(1))>>
    /\ last = Last("init", "", "", NoValue)

\* a call of a static method on the display has returned out
Returned(op, fn, out) ==
    /\ out \notin {Unmodelled, StrV(UNMODELLED)}
    /\ last' = Last(op, fn, "", out)
    /\ UNCHANGED <<display, memory, history>>

\* a call ScientificCalculator.evaluate(display), src/mon.py:69-95
Evaluate == Returned("evaluate", "", evaluate(display))

\* a call ScientificCalculator.scientific_function(func_name, display),
\* src/mon.py:98-132
Scientific(func_name) ==
    Returned("scientific_function", func_name,
             StrV(scientific_function(func_name, display)))

\* function names the static method is called with; "foo" is not in its table
FunctionNames == functions \cup {"foo"}
\* function buttons pressed on the input texts
FunctionButtons == {"sqrt", "reciprocal", "factorial"}

NextFn ==
    \/ Evaluate
    \/ \E func_name \in FunctionNames : Scientific(func_name)
    \/ calculate
    \/ \E func \in FunctionButtons : apply_function(func)

SpecFn == InitFn /\ [][NextFn]_vars

(* ------------------------------ properties ----------------------------- *)
\* texts the properties name
TxtDivZero == <<"E","r","r","o","r",":"," ","d","i","v","i","s","i","o","n"," ","b","y"," ","z","e","r","o">>
TxtNameFoo == <<"E","r","r","o","r",":"," ","n","a","m","e"," ","'","f","o","o","'"," ","i","s"," ","n","o","t"," ","d","e","f","i","n","e","d">>
TxtDomain == <<"E","r","r","o","r",":"," ","m","a","t","h"," ","d","o","m","a","i","n"," ","e","r","r","o","r">>
TxtSyntax == <<"E","r","r","o","r",":"," ","i","n","v","a","l","i","d"," ","s","y","n","t","a","x"," ","(","<","s","t","r","i","n","g",">",","," ","l","i","n","e"," ","1",")">>
TxtFloatDiv == <<"E","r","r","o","r",":"," ","f","l","o","a","t"," ","d","i","v","i","s","i","o","n"," ","b","y"," ","z","e","r","o">>
TxtEquals == <<" ","="," ">>

\* the display texts that float() reads as a zero
ZeroTexts == {<<"0">>, <<"0",".","0">>, <<"-","0">>}

\* s holds a character that no text float() accepts holds
HasOperator(s) == \E k \in 1..Len(s) : s[k] \in {"/", "(", ")", ":", "<"}

\* s is an optional sign and digits, with at most one "." among them
IsNumeral(s) ==
    LET b == IF s # <<>> /\ Head(s) = "-" THEN Tail(s) ELSE s
    IN  /\ \E k \in 1..Len(b) : IsDigit(b[k])
        /\ \A k \in 1..Len(b) : IsDigit(b[k]) \/ b[k] = "."
        /\ Cardinality({k \in 1..Len(b) : b[k] = "."}) <= 1

\* the number of characters of s after its first ".", 0 when it has none
FractionLen(s) ==
    IF \E k \in 1..Len(s) : s[k] = "."
    THEN Len(s) - (CHOOSE k \in 1..Len(s) : s[k] = "." /\ \A j \in 1..(k - 1) : s[j] # ".")
    ELSE 0

\* C1: history is append-only.  A successful calculate appends exactly one
\* entry, the text "<display before> = <display after>", and leaves the
\* earlier entries as they were; Clear History empties the list; no other
\* operation of the session changes it.
HistoryAppendOnly ==
    [][ IF last'.op = "calculate" /\ last'.tag = "ok"
        THEN history' = Append(history, display \o TxtEquals \o display')
        ELSE IF last'.op = "clear_history"
        THEN history' = <<>>
        ELSE history' = history ]_vars

\* C1 witness: two successful calculate calls, of '1' and then of '1.0',
\* have left two different entries in their order
HistoryTwoEntries ==
    /\ last.op = "calculate" /\ last.tag = "ok"
    /\ history = <<<<"1"," ","="," ","1">>, <<"1",".","0"," ","="," ","1">>>>

\* C2: a calculate whose evaluation yields an error string, and an
\* apply_function that yields an error string, leave history and memory as
\* they were and change only the display, to that error string.
FailureKeepsHistoryAndMemory ==
    [][ /\ (last'.op = "calculate" /\ evaluate(display).t = "str"
               /\ StartsWith(evaluate(display).s, <<"E","r","r","o","r">>))
            => /\ history' = history
               /\ memory' = memory
               /\ display' = evaluate(display).s
        /\ (last'.op = "apply_function"
               /\ StartsWith(scientific_function(last'.fn, display), <<"E","r","r","o","r">>))
            => /\ history' = history
               /\ memory' = memory
               /\ display' = scientific_function(last'.fn, display) ]_vars

\* C2 witness: calculate on '1/0' has failed in a session whose history and
\* memory are not empty, and both are as before
FailedCalculateReached ==
    /\ last.op = "calculate"
    /\ display = TxtDivZero
    /\ history = <<<<"1"," ","="," ","1">>>>
    /\ memory = FloatOne

\* C3: memory changes only in memory_add, memory_subtract and memory_clear.
\* memory_clear sets it to 0; memory_add and memory_subtract on a display
\* float() accepts add and subtract that number; on a display float() rejects
\* (one holding an operator, or an error string) they change nothing; every
\* other operation leaves memory as it was.
MemoryChangesOnlyByMemoryKeys ==
    [][ LET x == PyFloat(display) IN
        IF last'.op = "memory_clear"
        THEN memory' = IntV(0)
        ELSE IF last'.op \in {"memory_add", "memory_subtract"}
                /\ ~IsExc(x)
                /\ ~HasOperator(display)
        THEN /\ memory'.t = "float"
             /\ memory'.n * memory.d * x.d
                  = (IF last'.op = "memory_add"
                     THEN memory.n * x.d + x.n * memory.d
                     ELSE memory.n * x.d - x.n * memory.d) * memory'.d
        ELSE memory' = memory ]_vars

\* C3 witness: memory_add on the display '1/' has left a memory of 1.0 alone
MemoryAddRejected ==
    /\ last.op = "memory_add"
    /\ display = <<"1","/">>
    /\ memory = FloatOne

\* C4: evaluate and scientific_function return a value on every input and
\* raise nothing; a syntax error, a division by zero, an unknown name and a
\* domain error come back as a string that starts with 'Error' and carries
\* the message of the exception; calculate and apply_function put that string
\* in the display.
ErrorsAreReturned ==
    [][ /\ last'.op = "evaluate" =>
            /\ ~IsExc(last'.out)
            /\ display = <<"1","/","0">> => last'.out = StrV(TxtDivZero)
            /\ display = <<"f","o","o","(","1",")">> => last'.out = StrV(TxtNameFoo)
            /\ display = <<"s","q","r","t","(","-","1",")">> => last'.out = StrV(TxtDomain)
            /\ display = <<"1","/">> => last'.out = StrV(TxtSyntax)
        /\ last'.op = "scientific_function" =>
            /\ last'.out.t = "str"
            /\ last'.out.s # <<>>
            /\ (last'.fn = "sqrt" /\ display = <<"-","1">>) => last'.out.s = TxtDomain
            /\ HasOperator(display) => StartsWith(last'.out.s, <<"E","r","r","o","r",":"," ">>)
        /\ last'.op = "calculate" =>
            /\ display = <<"1","/","0">> => display' = TxtDivZero
            /\ display = <<"f","o","o","(","1",")">> => display' = TxtNameFoo
            /\ display = <<"s","q","r","t","(","-","1",")">> => display' = TxtDomain
            /\ display = <<"1","/">> => display' = TxtSyntax
        /\ (last'.op = "apply_function" /\ last'.fn = "sqrt" /\ display = <<"-","1">>)
            => display' = TxtDomain ]_vars

\* C4 witness: evaluate('1/0') has returned its error string
DivisionByZeroReturned ==
    /\ last.op = "evaluate"
    /\ display = <<"1","/","0">>
    /\ last.out = StrV(TxtDivZero)

\* C5: evaluate returns a number or an error string and nothing else, and
\* what a successful calculate shows and records is a number.
EvaluateNumberOrError ==
    [][ /\ last'.op = "evaluate" =>
            \/ IsNum(last'.out)
            \/ last'.out.t = "str" /\ StartsWith(last'.out.s, <<"E","r","r","o","r">>)
        /\ (last'.op = "calculate" /\ Len(history') > Len(history))
            => IsNumeral(display') ]_vars

\* C6: every function name of safe_dict, applied to an argument of its
\* domain, and each of its two constants, evaluates to a number.
EveryNameResolves ==
    (last.op = "evaluate"
        /\ display \in {NameUses[i][2] : i \in 1..Len(NameUses)}
                       \cup {ConstantUses[i][2] : i \in 1..Len(ConstantUses)})
    => IsNum(last.out)

\* C7: calculate, and only calculate, normalises a result.  It shows and
\* records an integral float as an int ('4/2' gives '2'), rounds any other
\* float to 10 decimal places, and shows an int as it is; what it records is
\* what it shows.  apply_function shows str() of the float it computed ('4'
\* under sqrt gives '2.0').
OnlyCalculateNormalises ==
    [][ /\ (last'.op = "calculate" /\ last'.tag = "ok") =>
            /\ FractionLen(display') <= 10
            /\ ~(Len(display') >= 2 /\ SubSeq(display', Len(display') - 1, Len(display')) = <<".","0">>)
            /\ history'[Len(history')] = display \o TxtEquals \o display'
            /\ display = <<"4","/","2">> => display' = <<"2">>
            /\ display = <<"2",".","0">> => display' = <<"2">>
            /\ display = <<"1","/","2">> => display' = <<"0",".","5">>
            /\ display = <<"2",".","5">> => display' = <<"2",".","5">>
            /\ display = <<"1","/","2","0","4","8">> => display' = <<"0",".","0","0","0","4","8","8","2","8","1","2">>
            /\ display = <<"7","/","2","0","4","8">> => display' = <<"0",".","0","0","3","4","1","7","9","6","8","8">>
            /\ display = <<"7">> => display' = <<"7">>
        /\ last'.op = "apply_function" =>
            /\ (last'.fn = "sqrt" /\ display = <<"4">>) => display' = <<"2",".","0">>
            /\ (last'.fn = "sqrt" /\ display = <<"0">>) => display' = <<"0",".","0">>
            /\ (last'.fn = "reciprocal" /\ display = <<"-","1">>) => display' = <<"-","1",".","0">>
            /\ (last'.fn = "reciprocal" /\ display = <<"4">>) => display' = <<"0",".","2","5">>
            /\ (last'.fn \in {"sqrt", "reciprocal"} /\ IsNumeral(display)
                   /\ ~StartsWith(display', <<"E","r","r","o","r">>))
                => FractionLen(display') >= 1 ]_vars

\* C7 witness: calculate on '4/2' has shown '2' and recorded '4/2 = 2'
IntegralFloatShownAsInt ==
    /\ last.op = "calculate"
    /\ display = <<"2">>
    /\ history[Len(history)] = <<"4","/","2"," ","="," ","2">>

\* C8: scientific_function('reciprocal', v) on a display v that denotes zero
\* returns an error string, not an infinity or any other numeral, and
\* apply_function('reciprocal') leaves that error string in the display.
ReciprocalOfZeroIsAnError ==
    [][ /\ (last'.op = "scientific_function" /\ last'.fn = "reciprocal"
               /\ display \in ZeroTexts)
            => last'.out = StrV(TxtFloatDiv)
        /\ (last'.op = "apply_function" /\ last'.fn = "reciprocal"
               /\ display \in ZeroTexts)
            => display' = TxtFloatDiv ]_vars

\* C8 witness: the reciprocal button on a zero display has left the error
ReciprocalErrorShown ==
    /\ last.op = "apply_function"
    /\ last.fn = "reciprocal"
    /\ display = TxtFloatDiv

\* C9: scientific_function('factorial', v) on a display v that denotes a
\* non-negative integer n returns the decimal text of n! ('5' gives '120');
\* on a negative or non-integral number it returns an error string; an
\* unknown function name returns 'Error'.
FactorialOfDisplay ==
    /\ (last.op = "scientific_function" /\ last.fn = "factorial") =>
        /\ display = <<"0">> => last.out = StrV(<<"1">>)
        /\ display = <<"4">> => last.out = StrV(<<"2","4">>)
        /\ display = <<"5">> => last.out = StrV(<<"1","2","0">>)
        /\ display \in {<<"-","1">>, <<"2",".","5">>} => StartsWith(last.out.s, <<"E","r","r","o","r">>)
    /\ (last.op = "scientific_function" /\ last.fn = "foo" /\ IsNumeral(display))
        => last.out = StrV(<<"E","r","r","o","r">>)

\* C10: the display is never empty; clear_entry on a display of one
\* character gives '0'; button_click on the display '0' puts the pressed
\* value in its place, unless that value is one of + - * / ^, which it
\* appends.
DisplayNeverEmpty ==
    /\ [](display # <<>>)
    /\ [][ /\ (last'.op = "clear_entry" /\ Len(display) = 1) => display' = <<"0">>
           /\ (last'.op = "button_click" /\ display = <<"0">>) =>
                display' = IF last'.fn \in {"+", "-", "*", "/", "^"}
                           THEN <<"0", last'.fn>>
                           ELSE <<last'.fn>> ]_vars

\* C10 witness: clear_entry has removed the only character of the display
\* and left '0'
ClearEntryFallback ==
    /\ last.op = "clear_entry"
    /\ last.tag = "reset"
    /\ display = <<"0">>

====
